---- MODULE Spec2Model ----
(***************************************************************************)
(* Model of ProgramaInteractivo.py (Tienda Aurelion documentation CLI).    *)
(*                                                                         *)
(* Text is a sequence of one-character strings.  Each component of the     *)
(* program keeps its state in one record variable whose fields carry the   *)
(* names of the locals of the function it models:                          *)
(*   pag  - paginate            (PagSpec)                                  *)
(*   srch - search_all          (SearchSpec)                               *)
(*   toc  - build_toc           (TocSpec)                                  *)
(*   inv  - list_files          (ListSpec)                                 *)
(*   app  - main / ask_int / pick_from_list over a changing file system    *)
(*          (Spec)                                                         *)
(* A specification leaves the records of the other components at Off.      *)
(***************************************************************************)
EXTENDS Integers, Sequences, FiniteSets, TLC

VARIABLES pag, srch, toc, inv, app

vars == <<pag, srch, toc, inv, app>>

Off == [pc |-> "off"]

(***************************************************************************)
(* Generic helpers on sequences and characters.                            *)
(***************************************************************************)
Min(a, b) == IF a <= b THEN a ELSE b
Max(a, b) == IF a >= b THEN a ELSE b

MinOf(S) == CHOOSE x \in S : \A y \in S : x <= y

\* All sequences over S of length 0..n.
SeqsUpTo(S, n) == UNION {[1..k -> S] : k \in 0..n}

RECURSIVE Flatten(_)
Flatten(ss) == IF ss = <<>> THEN <<>> ELSE Head(ss) \o Flatten(Tail(ss))

RECURSIVE Repeat(_, _)
Repeat(s, n) == IF n = 0 THEN <<>> ELSE s \o Repeat(s, n - 1)

\* str.isspace() on one character, for the characters the model uses.
WhiteSpace == {" ", "\t", "\n", "\r"}
IsSpace(c) == c \in WhiteSpace

\* The line boundaries str.splitlines() knows among the model's characters.
LineBreaks == {"\n", "\r"}

\* str.splitlines(): no empty last line after a final boundary, "\r\n" is one
\* boundary.
RECURSIVE splitlines(_)
splitlines(s) ==
  IF s = <<>> THEN <<>>
  ELSE LET B == {i \in 1..Len(s) : s[i] \in LineBreaks}
       IN IF B = {} THEN <<s>>
          ELSE LET k == MinOf(B)
                   skip == IF k < Len(s) /\ s[k] = "\r" /\ s[k + 1] = "\n"
                           THEN k + 1 ELSE k
               IN <<SubSeq(s, 1, k - 1)>> \o splitlines(SubSeq(s, skip + 1, Len(s)))

\* str.strip(): drop leading and trailing whitespace.
strip(s) ==
  LET K == {i \in 1..Len(s) : ~IsSpace(s[i])}
  IN IF K = {} THEN <<>>
     ELSE SubSeq(s, MinOf(K), CHOOSE x \in K : \A y \in K : y <= x)

(***************************************************************************)
(* textwrap.wrap(raw_line, width=cols) with the default options, for text  *)
(* of letters and blanks (no tabs, hyphens or dashes): TextWrapper._split  *)
(* gives the maximal runs of blanks and of non-blanks, and                 *)
(* TextWrapper._wrap_chunks fills each line greedily, drops a blank chunk  *)
(* at the start of every line but the first and at the end of every line,  *)
(* and breaks a word longer than the width (_handle_long_word).            *)
(***************************************************************************)
IsBlank(chunk) == \A i \in 1..Len(chunk) : IsSpace(chunk[i])

RECURSIVE split_chunks(_)
split_chunks(s) ==
  IF s = <<>> THEN <<>>
  ELSE LET sp == IsSpace(s[1])
           D == {i \in 1..Len(s) : IsSpace(s[i]) # sp}
           k == IF D = {} THEN Len(s) + 1 ELSE MinOf(D)
       IN <<SubSeq(s, 1, k - 1)>> \o split_chunks(SubSeq(s, k, Len(s)))

RECURSIVE SumLen(_)
SumLen(chunks) == IF chunks = <<>> THEN 0 ELSE Len(Head(chunks)) + SumLen(Tail(chunks))

RECURSIVE wrap_chunks(_, _, _)
wrap_chunks(chunks, width, lines) ==
  IF chunks = <<>> THEN lines
  ELSE LET c0 == IF IsBlank(Head(chunks)) /\ lines # <<>> THEN Tail(chunks) ELSE chunks
           n == CHOOSE k \in 0..Len(c0) :
                  /\ SumLen(SubSeq(c0, 1, k)) <= width
                  /\ k < Len(c0) => SumLen(SubSeq(c0, 1, k + 1)) > width
           cur == SubSeq(c0, 1, n)
           rest == SubSeq(c0, n + 1, Len(c0))
           long == rest # <<>> /\ Len(rest[1]) > width
           space_left == width - SumLen(cur)
           cur2 == IF long THEN Append(cur, SubSeq(rest[1], 1, space_left)) ELSE cur
           rest2 == IF long
                    THEN <<SubSeq(rest[1], space_left + 1, Len(rest[1]))>> \o Tail(rest)
                    ELSE rest
           cur3 == IF cur2 # <<>> /\ IsBlank(cur2[Len(cur2)])
                   THEN SubSeq(cur2, 1, Len(cur2) - 1) ELSE cur2
       IN wrap_chunks(rest2, width, IF cur3 # <<>> THEN Append(lines, Flatten(cur3)) ELSE lines)

wrap(raw_line, width) == wrap_chunks(split_chunks(raw_line), width, <<>>)

\* lines 88-91: wrapped = textwrap.wrap(raw_line, width=cols) or [""]
WrappedOrBlank(raw_line, cols) ==
  LET wrapped == wrap(raw_line, cols)
  IN IF wrapped = <<>> THEN << <<>> >> ELSE wrapped

RECURSIVE WrapAll(_, _)
WrapAll(raw_lines, cols) ==
  IF raw_lines = <<>> THEN <<>>
  ELSE WrappedOrBlank(Head(raw_lines), cols) \o WrapAll(Tail(raw_lines), cols)

(***************************************************************************)
(* paginate(text, title, width, height), lines 79-104.  The title only     *)
(* adds chrome above a page and is left out.  pag.pages is what has been   *)
(* printed so far, one entry per pass of the while loop; pag.prompts       *)
(* counts the calls of input() at line 104.                                *)
(***************************************************************************)
MaxUnit == 2
MaxRepeat == 12
MaxCols == 3
MaxHeight == 14

MinBody == 10
Chrome == 3
FallbackCols == 100
FallbackRows == 30

PagAlphabet == {"a", " ", "\n"}

\* Texts long enough to fill several pages: a short unit, repeated.
PagTexts ==
  {Repeat(u, n) : u \in SeqsUpTo(PagAlphabet, MaxUnit) \ {<<>>}, n \in 0..MaxRepeat}

PagHeights == {0, 1} \cup (13..MaxHeight)

\* What get_terminal_size(fallback=(100, 30)) may answer.
TermSizes == {<<FallbackCols, FallbackRows>>, <<2, 13>>}

\* line 87: rows = max(10, rows - 3)
BodyRows(rows) == Max(MinBody, rows - Chrome)

\* line 99: end = min(idx + rows, total)
PageEndShort(idx, rows, total) == Min(idx + rows - 1, total)
PageEnd(idx, rows, total) == Min(idx + rows, total)

\* line 103: if idx < total
NeedConfirmAlways(idx, total) == idx <= total
NeedConfirm(idx, total) == idx < total

PagInit ==
  /\ srch = Off /\ toc = Off /\ inv = Off /\ app = Off
  /\ pag = [pc |-> "idle", text |-> <<>>, width |-> 0, height |-> 0, cols |-> 0,
            rows |-> 0, lines |-> <<>>, idx |-> 0, pages |-> <<>>, prompts |-> 0]

\* line 79: the call, with its arguments
PagCall ==
  /\ pag.pc = "idle"
  /\ \E text \in PagTexts, width \in 0..MaxCols, height \in PagHeights :
       pag' = [pag EXCEPT !.pc = "call", !.text = text, !.width = width,
                             !.height = height]
  /\ UNCHANGED <<srch, toc, inv, app>>

\* lines 81-94 and the first test of the while at line 95
PagBegin ==
  /\ pag.pc = "call"
  /\ \E ts \in TermSizes :
       LET useTerm == pag.width <= 0 \/ pag.height <= 0
           cols == IF useTerm THEN ts[1] ELSE pag.width
           rows == BodyRows(IF useTerm THEN ts[2] ELSE pag.height)
           lines == WrapAll(splitlines(pag.text), cols)
       IN pag' = [pag EXCEPT !.cols = cols, !.rows = rows, !.lines = lines, !.idx = 0,
                             !.pc = IF 0 < Len(lines) THEN "loop" ELSE "done"]
  /\ UNCHANGED <<srch, toc, inv, app>>

\* lines 96-103: one pass of the loop up to the call of input(), or up to the
\* next test of the while when no confirmation is asked for
PagShow ==
  /\ pag.pc = "loop"
  /\ LET total == Len(pag.lines)
         end == PageEnd(pag.idx, pag.rows, total)
         ask == NeedConfirm(end, total)
     IN pag' = [pag EXCEPT !.pages = Append(@, SubSeq(pag.lines, pag.idx + 1, end)),
                           !.idx = end,
                           !.prompts = IF ask THEN @ + 1 ELSE @,
                           !.pc = IF ask THEN "input"
                                  ELSE IF end < total THEN "loop" ELSE "done"]
  /\ UNCHANGED <<srch, toc, inv, app>>

\* line 104: input() returns (the user pressed Enter); the while test at line 95
\* follows
PagConfirm ==
  /\ pag.pc = "input"
  /\ pag' = [pag EXCEPT !.pc = IF pag.idx < Len(pag.lines) THEN "loop" ELSE "done"]
  /\ UNCHANGED <<srch, toc, inv, app>>

\* line 104: input() raises KeyboardInterrupt (Ctrl+C) or EOFError, which
\* paginate does not catch
PagInterrupt ==
  /\ pag.pc = "input"
  /\ pag' = [pag EXCEPT !.pc = "raised"]
  /\ UNCHANGED <<srch, toc, inv, app>>

PagNext == PagCall \/ PagBegin \/ PagShow \/ PagConfirm \/ PagInterrupt

\* Scheduling: a pass of the loop that has started runs up to its prompt or to
\* the end of the loop, and every prompt is eventually answered, by Enter or by
\* an interrupt.
PagFair ==
  /\ WF_vars(PagShow)
  /\ WF_vars(PagConfirm \/ PagInterrupt)

PagSpec == PagInit /\ [][PagNext]_vars /\ PagFair

(***************************************************************************)
(* Claims about paginate.                                                  *)
(***************************************************************************)
NonBlank(c) == ~IsSpace(c)
IsEmptyLine(l) == l = <<>>

\* C1: for a viewport with columns > 0 and rows > 0, the display lines are the
\* source lines wrapped one by one at the given columns (none longer than the
\* columns, the non-blank characters of the text kept in order, one empty
\* display line for each blank source line and no other); the pages shown are
\* the consecutive slices of max(10, rows - 3) display lines, every page but
\* the last one full and the last one not empty, and once paginate returns the
\* pages put together are the display lines, none dropped, doubled or moved.
C1_PagesAreWrappedLines ==
  (pag.pc \in {"loop", "input", "done", "raised"} /\ pag.width > 0 /\ pag.height > 0) =>
    LET body == IF pag.height - 3 > 10 THEN pag.height - 3 ELSE 10
        src == splitlines(pag.text)
        L == pag.lines
        P == pag.pages
    IN /\ L = WrapAll(src, pag.width)
       /\ \A i \in 1..Len(L) : Len(L[i]) <= pag.width
       /\ SelectSeq(Flatten(L), NonBlank) = SelectSeq(pag.text, NonBlank)
       /\ Len(SelectSeq(L, IsEmptyLine)) = Len(SelectSeq(src, IsBlank))
       /\ Len(L) >= Len(src)
       /\ \A k \in 1..Len(P) :
            /\ P[k] = SubSeq(L, (k - 1) * body + 1, Min(k * body, Len(L)))
            /\ Len(P[k]) \in 1..body
            /\ (k < Len(P) \/ pag.pc \in {"loop", "input"}) => Len(P[k]) = body
       /\ Flatten(P) = SubSeq(L, 1, pag.idx)
       /\ pag.pc = "done" => Flatten(P) = L

\* C1 witness: paginate has returned after several pages, the last one shorter,
\* of a text with a source line that wrapped into more than one display line.
C1_Witness ==
  /\ pag.pc = "done" /\ pag.width > 0 /\ pag.height > 0
  /\ Len(pag.pages) >= 2
  /\ Len(pag.pages[Len(pag.pages)]) < BodyRows(pag.height)
  /\ Len(pag.lines) > Len(splitlines(pag.text))

\* C2: pages are shown one at a time and forwards; after every page that is not
\* the last one the program waits at a prompt, and the next page comes only
\* after that prompt is answered; no prompt follows the last page; and unless
\* a prompt is answered by an interrupt, paginate returns with every line shown.
C2_ConfirmBetweenPages ==
  /\ [][Len(pag'.pages) # Len(pag.pages) =>
          /\ pag.pc = "loop"
          /\ Len(pag'.pages) = Len(pag.pages) + 1
          /\ pag'.idx > pag.idx
          /\ pag.prompts = Len(pag.pages)]_vars
  /\ [](pag.pc = "input" => pag.idx < Len(pag.lines) /\ pag.prompts = Len(pag.pages))
  /\ [](pag.pc = "done" =>
          /\ pag.idx = Len(pag.lines)
          /\ pag.prompts = (IF pag.pages = <<>> THEN 0 ELSE Len(pag.pages) - 1))
  /\ ([](pag.pc # "raised") => ((pag.pc = "loop") ~> (pag.pc = "done")))

\* C2 witness: paginate has returned after three pages and two answered prompts.
C2_Witness == pag.pc = "done" /\ Len(pag.pages) = 3 /\ pag.prompts = 2

(***************************************************************************)
(* search_all(md_paths, query, context), lines 107-125.                    *)
(*                                                                         *)
(* A document is its position in md_paths; srch.files[p] is what           *)
(* read_text(p) returns.  A result is (p, line, snippet) as in the code,   *)
(* with one more field, raw: the value of snippet after line 119, before   *)
(* the highlighting of lines 121-123.                                      *)
(***************************************************************************)
MaxDocUnit == 3
MaxDocRepeat == 2
MaxDocs == 2
MaxQuery == 2
MaxContext == 1

\* Characters: "I_dot" stands for U+0130 (capital I with dot above) and "dot"
\* for U+0307 (combining dot above); the others stand for themselves.
Letters == {"a", "A", "I_dot"}
QueryLetters == {"a", "A"}
DocAlphabet == Letters \cup {"\n"}

\* What typing a dotted lowercase i may give: "i" followed by U+0307, which is
\* also the lowercase of U+0130.
DottedI == <<"i", "dot">>

Queries == SeqsUpTo(QueryLetters, MaxQuery) \cup {DottedI}

\* The uppercase letters of the model and their lowercase.
UpperCase == <<"A", "D", "G", "M", "N", "P">>
LowerCase == <<"a", "d", "g", "m", "n", "p">>

\* str.lower() on one character: the full lowercase mapping, which turns U+0130
\* into the two characters "i" and U+0307
lower(c) ==
  IF c = "I_dot" THEN <<"i", "dot">>
  ELSE IF \E k \in 1..Len(UpperCase) : UpperCase[k] = c
       THEN <<LowerCase[CHOOSE k \in 1..Len(UpperCase) : UpperCase[k] = c]>>
       ELSE <<c>>

\* str.lower()
Lower(s) == Flatten([i \in 1..Len(s) |-> lower(s[i])])

\* The lowercase of one character for re.IGNORECASE, which compares character
\* by character (the simple mapping: U+0130 becomes "i")
fold(c) == IF c = "I_dot" THEN "i" ELSE lower(c)[1]

\* needle in hay (Python's substring test)
Contains(hay, needle) ==
  \E off \in 0..(Len(hay) - Len(needle)) : SubSeq(hay, off + 1, off + Len(needle)) = needle

\* sep.join(parts)
RECURSIVE Join(_, _)
Join(sep, parts) ==
  IF parts = <<>> THEN <<>>
  ELSE IF Len(parts) = 1 THEN parts[1]
  ELSE parts[1] \o sep \o Join(sep, Tail(parts))

\* line 115: if query_low in line.lower()
IsMatchCaseSensitive(query_low, line) == Contains(line, query_low)
IsMatch(query_low, line) == Contains(Lower(line), query_low)

\* lines 117-119: lines[start-1:end] with start = max(1, i - context) and
\* end = min(len(lines), i + context)
WindowOffByOne(lines, i, context) ==
  SubSeq(lines, Max(1, i - context), Min(Len(lines), i + context) - 1)
Window(lines, i, context) ==
  SubSeq(lines, Max(1, i - context), Min(Len(lines), i + context))

\* re.escape(query) under re.IGNORECASE matches at index i of text
MatchesAt(query, text, i) ==
  /\ i + Len(query) - 1 <= Len(text)
  /\ \A t \in 1..Len(query) : fold(text[i + t - 1]) = fold(query[t])

\* lines 121-123: re.sub(re.escape(query), lambda m: f"[{m.group(0)}]", snippet,
\* flags=re.IGNORECASE): leftmost matches, not overlapping; an empty pattern
\* matches once before every character and once at the end.
RECURSIVE sub(_, _, _)
sub(query, text, i) ==
  IF i > Len(text) THEN (IF query = <<>> THEN <<"[", "]">> ELSE <<>>)
  ELSE IF MatchesAt(query, text, i)
       THEN IF query = <<>>
            THEN <<"[", "]", text[i]>> \o sub(query, text, i + 1)
            ELSE <<"[">> \o SubSeq(text, i, i + Len(query) - 1) \o <<"]">>
                 \o sub(query, text, i + Len(query))
       ELSE <<text[i]>> \o sub(query, text, i + 1)

Highlight(query, snippet) == sub(query, snippet, 1)

\* lines 113-124: the matches of one document, text being what read_text(p) gave
RECURSIVE LineLoop(_, _, _, _, _)
LineLoop(p, lines, query, context, i) ==
  IF i > Len(lines) THEN <<>>
  ELSE (IF IsMatch(Lower(query), lines[i])
        THEN LET raw == Join(<<"\n">>, Window(lines, i, context))
             IN <<[p |-> p, line |-> i, raw |-> raw, snippet |-> Highlight(query, raw)]>>
        ELSE <<>>)
       \o LineLoop(p, lines, query, context, i + 1)

DocMatches(p, text, query, context) == LineLoop(p, splitlines(text), query, context, 1)

\* The documents of one call: a short unit repeated, and the same text rotated
\* by one more character for every further document.
Rot(s, k) == [i \in 1..Len(s) |-> s[((i - 1 + k) % Len(s)) + 1]]

BaseDocs ==
  {Repeat(u, n) : u \in SeqsUpTo(DocAlphabet, MaxDocUnit) \ {<<>>}, n \in 1..MaxDocRepeat}

DocLists ==
  {<<>>} \cup {[j \in 1..m |-> Rot(d, j - 1)] : d \in BaseDocs, m \in 1..MaxDocs}

SearchInit ==
  /\ pag = Off /\ toc = Off /\ inv = Off /\ app = Off
  /\ srch = [pc |-> "idle", files |-> <<>>, md_paths |-> <<>>, query |-> <<>>,
             context |-> 0, k |-> 0, results |-> <<>>]

\* line 107: the call
SearchCall ==
  /\ srch.pc = "idle"
  /\ \E files \in DocLists, query \in Queries, context \in 0..MaxContext :
       srch' = [srch EXCEPT !.pc = "docs", !.files = files,
                            !.md_paths = [j \in 1..Len(files) |-> j],
                            !.query = query, !.context = context]
  /\ UNCHANGED <<pag, toc, inv, app>>

\* lines 111-124: one pass of "for p in md_paths"
SearchDoc ==
  /\ srch.pc = "docs"
  /\ srch.k < Len(srch.md_paths)
  /\ LET p == srch.md_paths[srch.k + 1]
     IN srch' = [srch EXCEPT !.k = @ + 1,
                             !.results = @ \o DocMatches(p, srch.files[p], srch.query,
                                                         srch.context)]
  /\ UNCHANGED <<pag, toc, inv, app>>

\* line 125: return results
SearchReturn ==
  /\ srch.pc = "docs"
  /\ srch.k = Len(srch.md_paths)
  /\ srch' = [srch EXCEPT !.pc = "done"]
  /\ UNCHANGED <<pag, toc, inv, app>>

SearchNext == SearchCall \/ SearchDoc \/ SearchReturn

SearchSpec == SearchInit /\ [][SearchNext]_vars

(***************************************************************************)
(* Claims about search_all.                                                *)
(***************************************************************************)
\* The lowercased query is at index o of the lowercased text.
OccursAt(query, text, o) ==
  /\ o >= 1 /\ o + Len(Lower(query)) - 1 <= Len(Lower(text))
  /\ \A t \in 1..Len(Lower(query)) : Lower(query)[t] = Lower(text)[o + t - 1]

HasOccurrence(query, text) == \E o \in 1..(Len(Lower(text)) + 1) : OccursAt(query, text, o)

DocLines(p) == splitlines(srch.files[p])

\* C3: search_all returns one match for every (document, line number) whose
\* line contains the query regardless of case, no match for any other line and
\* no pair twice; the matches follow the order of md_paths and, inside a
\* document, ascending 1-based line numbers.
C3_OneMatchPerLine ==
  srch.pc = "done" =>
    LET R == srch.results
        Expected == UNION {{<<p, i>> : i \in {j \in 1..Len(DocLines(p)) :
                                                 HasOccurrence(srch.query, DocLines(p)[j])}} :
                           p \in 1..Len(srch.md_paths)}
    IN /\ {<<R[k].p, R[k].line>> : k \in 1..Len(R)} = Expected
       /\ Len(R) = Cardinality(Expected)
       /\ \A k, l \in 1..Len(R) :
            k < l => \/ R[k].p < R[l].p
                     \/ (R[k].p = R[l].p /\ R[k].line < R[l].line)

\* C3 witness: two documents, matches in both, a matching line that holds the
\* query twice, and a line that does not match.
C3_Witness ==
  /\ srch.pc = "done" /\ Len(srch.md_paths) = 2 /\ srch.query # <<>>
  /\ \E k, l \in 1..Len(srch.results) : srch.results[k].p = 1 /\ srch.results[l].p = 2
  /\ \E k \in 1..Len(srch.results) :
       LET r == srch.results[k]
           line == DocLines(r.p)[r.line]
       IN Cardinality({o \in 1..Len(line) : OccursAt(srch.query, line, o)}) >= 2
  /\ \E p \in 1..2 : \E i \in 1..Len(DocLines(p)) : ~HasOccurrence(srch.query, DocLines(p)[i])

\* The lines lo..hi of a document, a newline between two of them.
RECURSIVE WindowText(_, _, _)
WindowText(lines, lo, hi) ==
  IF lo > hi THEN <<>>
  ELSE IF lo = hi THEN lines[lo]
  ELSE lines[lo] \o <<"\n">> \o WindowText(lines, lo + 1, hi)

\* C4: before highlighting, the snippet of a match at line i of a document of n
\* lines is the lines max(1, i - c) .. min(n, i + c) of that document in their
\* order, joined by newlines; with c = 0 it is line i itself.
C4_ContextWindow ==
  srch.pc = "done" =>
    \A k \in 1..Len(srch.results) :
      LET r == srch.results[k]
          lines == DocLines(r.p)
          n == Len(lines)
          c == srch.context
          lo == IF r.line - c < 1 THEN 1 ELSE r.line - c
          hi == IF r.line + c > n THEN n ELSE r.line + c
      IN /\ 1 <= lo /\ lo <= r.line /\ r.line <= hi /\ hi <= n
         /\ r.raw = WindowText(lines, lo, hi)
         /\ c = 0 => r.raw = lines[r.line]

\* C4 witness: with context 1, one match whose window is cut at the start of
\* the document, one cut at the end and one not cut at all.
C4_Witness ==
  /\ srch.pc = "done" /\ srch.context = 1
  /\ \E k, l, m \in 1..Len(srch.results) :
       LET a == srch.results[k]
           b == srch.results[l]
           d == srch.results[m]
       IN /\ a.line = 1 /\ Len(DocLines(a.p)) >= 2
          /\ b.line = Len(DocLines(b.p)) /\ b.line >= 2
          /\ d.line >= 2 /\ d.line < Len(DocLines(d.p))

IsBracket(c) == c \in {"[", "]"}
NotBracket(c) == ~IsBracket(c)

\* The bracketed stretches of the highlighted text h, each as <<first, last>>
\* in indices of the text without its brackets.
RECURSIVE Bracketed(_, _, _, _)
Bracketed(h, i, pos, open) ==
  IF i > Len(h) THEN {}
  ELSE IF h[i] = "[" THEN Bracketed(h, i + 1, pos, pos)
  ELSE IF h[i] = "]" THEN {<<open, pos - 1>>} \cup Bracketed(h, i + 1, pos, open)
  ELSE Bracketed(h, i + 1, pos + 1, open)

\* The stretches of text that are the query regardless of case.
Occurrences(query, text) ==
  {s \in (1..(Len(text) + 1)) \X (0..Len(text)) :
     s[1] - 1 <= s[2] /\ Lower(SubSeq(text, s[1], s[2])) = Lower(query)}

\* C5: in every snippet, taking the brackets away gives the window text as it
\* is in the document; every bracketed stretch is an occurrence of the query
\* regardless of case, in the casing of the document; and every occurrence of
\* the query in the window, in the matched line or in a context line, is
\* bracketed unless a bracketed occurrence that starts before it overlaps it.
C5_HighlightKeepsCase ==
  srch.pc = "done" =>
    \A k \in 1..Len(srch.results) :
      LET r == srch.results[k]
          h == r.snippet
          B == Bracketed(h, 1, 1, 0)
          Occ == Occurrences(srch.query, r.raw)
      IN /\ SelectSeq(h, NotBracket) = r.raw
         /\ Len(SelectSeq(h, IsBracket)) = 2 * Cardinality(B)
         /\ B \subseteq Occ
         /\ \A s \in Occ : s \in B \/ \E b \in B : b[1] < s[1] /\ s[1] <= b[2]


(***************************************************************************)
(* build_toc(md_text), lines 64-76.                                        *)
(***************************************************************************)
MaxHashes == 7
MaxGap == 1
MaxPad == 1
MaxBody == 1
MaxTocLines == 3

MaxLevel == 6

\* re.match(r"^(#{1,6})\s+(.*)", s): the number of "#" group 1 takes (greedy,
\* with backtracking), or 0 when there is no match.  The line holds no newline,
\* so (.*) takes all that follows the whitespace.
HashGroup(s) ==
  LET K == {k \in 1..MaxLevel :
              /\ k < Len(s)
              /\ \A j \in 1..k : s[j] = "#"
              /\ IsSpace(s[k + 1])}
  IN IF K = {} THEN 0 ELSE CHOOSE k \in K : \A j \in K : j <= k

\* group 2 of the match: what follows the whitespace taken by \s+
RestGroup(s, k) ==
  LET N == {j \in (k + 1)..Len(s) : ~IsSpace(s[j])}
  IN IF N = {} THEN <<>> ELSE SubSeq(s, MinOf(N), Len(s))

\* The entry of one line when the pattern is matched on the line as it is.
HeaderOfRawLine(line, i) ==
  LET k == HashGroup(line)
  IN IF k = 0 THEN <<>>
     ELSE <<[level |-> k, title |-> strip(RestGroup(line, k)), line |-> i]>>
\* lines 71-75: the entry of one line, or no entry
HeaderOf(line, i) ==
  LET s == strip(line)
      k == HashGroup(s)
  IN IF k = 0 THEN <<>>
     ELSE <<[level |-> k, title |-> strip(RestGroup(s, k)), line |-> i]>>

\* Lines around a run of "#": blanks, the run, blanks, a short text, blanks.
TocLines ==
  {Repeat(<<" ">>, lead) \o Repeat(<<"#">>, hashes) \o Repeat(<<" ">>, gap) \o body
     \o Repeat(<<" ">>, trail) :
     lead \in 0..MaxPad, hashes \in 0..MaxHashes, gap \in 0..MaxGap,
     body \in SeqsUpTo({"a", "#"}, MaxBody), trail \in 0..MaxPad}

Fillers == << <<>>, <<"a">>, <<"#", "#", "\t", "b">> >>

\* Documents: one of the lines above (shape 0), any number of times, among
\* filler lines (shape 1..3).
TocTexts ==
  {Join(<<"\n">>, [j \in 1..Len(shape) |-> IF shape[j] = 0 THEN l ELSE Fillers[shape[j]]]) :
     l \in TocLines, shape \in SeqsUpTo(0..Len(Fillers), MaxTocLines)}

TocInit ==
  /\ pag = Off /\ srch = Off /\ inv = Off /\ app = Off
  /\ toc = [pc |-> "idle", md_text |-> <<>>, i |-> 0, toc |-> <<>>]

\* line 64: the call
TocCall ==
  /\ toc.pc = "idle"
  /\ \E md_text \in TocTexts : toc' = [toc EXCEPT !.pc = "lines", !.md_text = md_text]
  /\ UNCHANGED <<pag, srch, inv, app>>

\* lines 70-75: one pass of the loop over the lines
TocLine ==
  /\ toc.pc = "lines"
  /\ toc.i < Len(splitlines(toc.md_text))
  /\ LET i == toc.i + 1
     IN toc' = [toc EXCEPT !.i = i,
                           !.toc = @ \o HeaderOf(splitlines(toc.md_text)[i], i)]
  /\ UNCHANGED <<pag, srch, inv, app>>

\* line 76: return toc
TocReturn ==
  /\ toc.pc = "lines"
  /\ toc.i = Len(splitlines(toc.md_text))
  /\ toc' = [toc EXCEPT !.pc = "done"]
  /\ UNCHANGED <<pag, srch, inv, app>>

TocNext == TocCall \/ TocLine \/ TocReturn

TocSpec == TocInit /\ [][TocNext]_vars

(***************************************************************************)
(* Claims about build_toc.                                                 *)
(***************************************************************************)
\* The length of the run of "#" that s starts with.
HashRun(s) == Cardinality({k \in 1..Len(s) : \A j \in 1..k : s[j] = "#"})

\* s, a trimmed line, is a run of 1 to 6 "#", then whitespace, then some text.
IsHeader(s) ==
  /\ HashRun(s) \in 1..6
  /\ Len(s) > HashRun(s)
  /\ IsSpace(s[HashRun(s) + 1])
  /\ \E j \in (HashRun(s) + 2)..Len(s) : ~IsSpace(s[j])

\* C6: build_toc returns one entry for each line that, trimmed, is a run of 1
\* to 6 "#", whitespace and some text, and for no other line; the level is the
\* length of the run, the title is what follows the run, trimmed, and is not
\* empty, the line number is the 1-based number of the line among all lines,
\* the entries come with strictly growing line numbers, and a text without
\* such a line gives no entry.
C6_TocEntries ==
  toc.pc = "done" =>
    LET lines == splitlines(toc.md_text)
        T == toc.toc
        H == {i \in 1..Len(lines) : IsHeader(strip(lines[i]))}
    IN /\ {T[k].line : k \in 1..Len(T)} = H
       /\ Len(T) = Cardinality(H)
       /\ \A k \in 1..Len(T) :
            LET s == strip(lines[T[k].line])
            IN /\ T[k].level = HashRun(s)
               /\ T[k].title = strip(SubSeq(s, HashRun(s) + 1, Len(s)))
               /\ T[k].title # <<>>
       /\ \A k, l \in 1..Len(T) : k < l => T[k].line < T[l].line
       /\ H = {} => T = <<>>

\* C6 witness: three lines, a header padded with blanks on line 1, a line that
\* is no header on line 2 and a header of another level on line 3.
C6_Witness ==
  /\ toc.pc = "done"
  /\ Len(splitlines(toc.md_text)) = 3
  /\ Len(toc.toc) = 2
  /\ toc.toc[1].line = 1 /\ toc.toc[2].line = 3
  /\ toc.toc[1].level = 6 /\ toc.toc[2].level = 2
  /\ splitlines(toc.md_text)[1][1] = " "

(***************************************************************************)
(* list_files(root), lines 49-61.                                          *)
(*                                                                         *)
(* A directory is a set of entries [name, kind] with distinct names.  The  *)
(* kinds: a regular file, a directory, a symbolic link to a regular file,  *)
(* a symbolic link to a directory, a symbolic link to nothing, a FIFO.     *)
(* The lists hold names: os.path.join(root, name) keeps name and order.    *)
(***************************************************************************)
MaxStem == 1

Kinds == {"file", "dir", "link_file", "link_dir", "link_dangling", "fifo"}

\* line 22 and line 23
MD_EXT == {<<".", "m", "d">>, <<".", "m", "a", "r", "k", "d", "o", "w", "n">>}
IMG_EXT == {<<".", "p", "n", "g">>, <<".", "j", "p", "g">>, <<".", "j", "p", "e", "g">>,
            <<".", "g", "i", "f">>, <<".", "s", "v", "g">>}

\* The characters of file names in the order of their code points.
CodeOrder == <<".", "4", "D", "G", "M", "N", "P", "a", "c", "d", "e", "f", "g", "i", "j",
               "k", "m", "n", "o", "p", "r", "s", "t", "u", "v", "w", "x">>
Code(c) == CHOOSE k \in 1..Len(CodeOrder) : CodeOrder[k] = c

\* a < b for two strings, as sorted() compares them
RECURSIVE StrLess(_, _)
StrLess(a, b) ==
  IF b = <<>> THEN FALSE
  ELSE IF a = <<>> THEN TRUE
  ELSE IF a[1] # b[1] THEN Code(a[1]) < Code(b[1])
  ELSE StrLess(Tail(a), Tail(b))

\* sorted(names)
RECURSIVE sorted(_)
sorted(names) ==
  IF names = {} THEN <<>>
  ELSE LET first == CHOOSE n \in names : \A m \in names \ {n} : StrLess(n, m)
       IN <<first>> \o sorted(names \ {first})

\* A test on the entry itself, which os.lstat would give.
isfile_lstat(kind) == kind = "file"
\* os.path.isfile(p): os.stat follows symbolic links
isfile(kind) == kind \in {"file", "link_file"}

\* os.path.splitext(name)[1]: from the last dot on, unless only dots come
\* before it
splitext_ext(name) ==
  LET Dots == {i \in 1..Len(name) : name[i] = "."}
      dotIndex == CHOOSE i \in Dots : \A j \in Dots : j <= i
  IN IF Dots = {} THEN <<>>
     ELSE IF \E i \in 1..(dotIndex - 1) : name[i] # "."
          THEN SubSeq(name, dotIndex, Len(name))
          ELSE <<>>

\* lines 53-60: where one name of the listing goes
Classify(name, kind) ==
  IF ~isfile(kind) THEN "skip"
  ELSE LET ext == Lower(splitext_ext(name))
       IN IF ext \in MD_EXT THEN "md"
          ELSE IF ext \in IMG_EXT THEN "img"
          ELSE "skip"

KindOf(dir, name) == (CHOOSE e \in dir : e.name = name).kind

\* list_files as a whole: (mds, imgs)
RECURSIVE Keep(_, _, _)
Keep(names, dir, class) ==
  IF names = <<>> THEN <<>>
  ELSE (IF Classify(Head(names), KindOf(dir, Head(names))) = class
        THEN <<Head(names)>> ELSE <<>>) \o Keep(Tail(names), dir, class)

list_files(dir) ==
  LET names == sorted({e.name : e \in dir})
  IN <<Keep(names, dir, "md"), Keep(names, dir, "img")>>

\* File names: a short stem and an ending.
Endings ==
  {<<>>, <<"m", "d">>, <<".", "m", "d">>, <<".", "M", "D">>, <<".", "M", "d">>,
   <<".", "m", "a", "r", "k", "d", "o", "w", "n">>, <<".", "m", "d", "x">>,
   <<".", "p", "n", "g">>, <<".", "P", "N", "G">>, <<".", "j", "p", "g">>,
   <<".", "j", "p", "e", "g">>, <<".", "g", "i", "f">>, <<".", "s", "v", "g">>,
   <<".", "t", "x", "t">>, <<".", "m", "d", ".", "t", "x", "t">>}

FileNames ==
  {stem \o ending : stem \in SeqsUpTo({"a", "."}, MaxStem), ending \in Endings}
    \ {<<>>, <<".">>, <<".", ".">>}

\* Entries that stay the same from one directory to the next.
Companions ==
  {[name |-> <<"a", ".", "m", "d">>, kind |-> "file"],
   [name |-> <<"D", ".", "M", "D">>, kind |-> "link_file"],
   [name |-> <<"d", ".", "p", "n", "g">>, kind |-> "file"],
   [name |-> <<"m", ".", "m", "d">>, kind |-> "dir"]}

\* Directories: some of the companions and one more entry of any name and kind
\* (which replaces a companion of the same name).
Directories ==
  SUBSET Companions
    \cup {{c \in some : c.name # name} \cup {[name |-> name, kind |-> kind]} :
            some \in SUBSET Companions, name \in FileNames, kind \in Kinds}

ListInit ==
  /\ pag = Off /\ srch = Off /\ toc = Off /\ app = Off
  /\ inv = [pc |-> "idle", dir |-> {}, names |-> <<>>, k |-> 0, mds |-> <<>>,
            imgs |-> <<>>]

\* lines 49-52: the call and sorted(os.listdir(root))
ListCall ==
  /\ inv.pc = "idle"
  /\ \E dir \in Directories :
       inv' = [inv EXCEPT !.pc = "scan", !.dir = dir,
                          !.names = sorted({e.name : e \in dir})]
  /\ UNCHANGED <<pag, srch, toc, app>>

\* lines 53-60: one pass of the loop
ListEntry ==
  /\ inv.pc = "scan"
  /\ inv.k < Len(inv.names)
  /\ LET name == inv.names[inv.k + 1]
         class == Classify(name, KindOf(inv.dir, name))
     IN inv' = [inv EXCEPT !.k = @ + 1,
                           !.mds = IF class = "md" THEN Append(@, name) ELSE @,
                           !.imgs = IF class = "img" THEN Append(@, name) ELSE @]
  /\ UNCHANGED <<pag, srch, toc, app>>

\* line 61: return mds, imgs
ListReturn ==
  /\ inv.pc = "scan"
  /\ inv.k = Len(inv.names)
  /\ inv' = [inv EXCEPT !.pc = "done"]
  /\ UNCHANGED <<pag, srch, toc, app>>

ListNext == ListCall \/ ListEntry \/ ListReturn

ListSpec == ListInit /\ [][ListNext]_vars

(***************************************************************************)
(* Claims about list_files.                                                *)
(***************************************************************************)
\* name ends in the extension e whatever the case, with more than dots before it.
HasExt(name, e) ==
  /\ Len(name) > Len(e)
  /\ Lower(SubSeq(name, Len(name) - Len(e) + 1, Len(name))) = e
  /\ \E i \in 1..(Len(name) - Len(e)) : name[i] # "."

\* The names of the entries of the directory of one of the kinds given whose
\* extension is one of those given.
NamesOf(kinds, exts) ==
  {e.name : e \in {x \in inv.dir : x.kind \in kinds /\ \E t \in exts : HasExt(x.name, t)}}

\* The two lists are exactly the entries of the kinds given with a Markdown and
\* with an image extension, each once, each list ascending by name.
ListsHold(kinds) ==
  /\ {inv.mds[k] : k \in 1..Len(inv.mds)} = NamesOf(kinds, MD_EXT)
  /\ {inv.imgs[k] : k \in 1..Len(inv.imgs)} = NamesOf(kinds, IMG_EXT)
  /\ Len(inv.mds) = Cardinality(NamesOf(kinds, MD_EXT))
  /\ Len(inv.imgs) = Cardinality(NamesOf(kinds, IMG_EXT))
  /\ \A k \in 1..Len(inv.mds) : \A l \in 1..Len(inv.imgs) : inv.mds[k] # inv.imgs[l]
  /\ \A k, l \in 1..Len(inv.mds) : k < l => StrLess(inv.mds[k], inv.mds[l])
  /\ \A k, l \in 1..Len(inv.imgs) : k < l => StrLess(inv.imgs[k], inv.imgs[l])

\* C7 as stated: the lists hold the regular files that are not symbolic links,
\* by extension; symbolic links, also those to regular files, are in neither.
C7_SymlinksExcluded == inv.pc = "done" => ListsHold({"file"})

\* C7 amended: the lists hold the regular files and the symbolic links that
\* lead to a regular file, by lowercased extension (.md, .markdown; .png, .jpg,
\* .jpeg, .gif, .svg); directories, links that lead to no regular file, other
\* entries and other extensions are in neither list, no entry is in both, and
\* each list ascends by file name.
C7_RegularFilesAndLinksToThem == inv.pc = "done" => ListsHold({"file", "link_file"})

\* C7 witness: a listing with two Markdown files, one of them a symbolic link
\* to a regular file, an image, and a dangling link named like a Markdown file
\* that is left out.
C7_Witness ==
  /\ inv.pc = "done"
  /\ Len(inv.mds) = 2 /\ Len(inv.imgs) = 1
  /\ \E k \in 1..2 : KindOf(inv.dir, inv.mds[k]) = "link_file"
  /\ \E e \in inv.dir :
       /\ e.kind = "link_dangling"
       /\ HasExt(e.name, <<".", "m", "d">>)

(***************************************************************************)
(* main() with ask_int, pick_from_list, show_toc and open_doc_paged, lines *)
(* 26-32, 128-155 and 158-255, over a file system that other processes     *)
(* change while the program waits for input.                               *)
(*                                                                         *)
(* app.fs is the file system: the root (a directory, missing, or replaced  *)
(* by a file) and, for each document, whether it is there and readable     *)
(* ("ok"), there but not readable by the user ("unreadable") or not there  *)
(* ("absent").  One action is one handler: from the return of a call of    *)
(* input() to the next call of input() or to the end of the process.       *)
(* app.pc names the prompt the program waits at, or how it ended:          *)
(*   "exited" (option 0), "invalid_dir" (sys.exit(1) at line 162),         *)
(*   "interrupted" (KeyboardInterrupt caught at line 254), "crashed" (an   *)
(*   exception nothing catches: app.err, raised in app.raised_in).         *)
(***************************************************************************)
MaxInput == 2

DocA == <<"a", ".", "m", "d">>
DocSug == <<"4", ".", "s", "u", "g", "e", "r", "e", "n", "c", "i", "a", "s", ".", "m", "d">>
ImgP == <<"p", ".", "p", "n", "g">>
AppDocs == {DocA, DocSug}

\* What the documents hold.
Content(name) ==
  IF name = DocA THEN <<"A", "d", "\n", "a", "\n", "d", "a", "d">>
  ELSE Repeat(<<"a", "d", "\n">>, 11)

\* What the user may type at the prompts of ask_int; "sup2" stands for U+00B2
\* (superscript two).
InputChars == {"0", "1", "2", "3", "4", "5", "9", " ", "x", "sup2"}
Inputs == SeqsUpTo(InputChars, MaxInput)

\* What the user may type at the prompt of line 222.
AppQueries == {<<"a">>, <<"a", "d">>, <<" ", "A", "D", " ">>, <<"x", "x">>}

DecimalDigits == <<"0", "1", "2", "3", "4", "5", "6", "7", "8", "9">>
IsDecimal(c) == \E k \in 1..10 : DecimalDigits[k] = c
DigitValue(c) == (CHOOSE k \in 1..10 : DecimalDigits[k] = c) - 1

\* str.isdigit() on one character: the decimal digits and the other characters
\* of Unicode that are digits, such as U+00B2
IsDigitChar(c) == IsDecimal(c) \/ c = "sup2"

\* int(val) for a string of decimal digits
RECURSIVE int(_)
int(v) == IF v = <<>> THEN 0 ELSE 10 * int(SubSeq(v, 1, Len(v) - 1)) + DigitValue(v[Len(v)])

\* lines 29-32, one pass of the loop of ask_int on what input() returned:
\* the value returned, a new prompt ("retry"), or the ValueError of int() on a
\* digit that is not a decimal digit
ask_int(typed, valid) ==
  LET val == strip(typed)
  IN IF val # <<>> /\ \A i \in 1..Len(val) : IsDigitChar(val[i])
     THEN IF \A i \in 1..Len(val) : IsDecimal(val[i])
          THEN IF int(val) \in valid THEN [res |-> "value", n |-> int(val)]
               ELSE [res |-> "retry", n |-> 0]
          ELSE [res |-> "ValueError", n |-> 0]
     ELSE [res |-> "retry", n |-> 0]

\* os.path.isdir(root), line 160
isdir(fs) == fs.root = "dir"

\* What os.listdir(root) raises at line 52, or "none"
ListError(fs) ==
  CASE fs.root = "dir" -> "none"
    [] fs.root = "missing" -> "FileNotFoundError"
    [] OTHER -> "NotADirectoryError"

\* The entries of the root directory.
DirOf(fs) ==
  {[name |-> n, kind |-> "file"] : n \in {d \in AppDocs : fs.docs[d] # "absent"}}
    \cup {[name |-> ImgP, kind |-> "file"]}

\* What open() raises in read_text(path), lines 45-46, or "none"
ReadError(fs, name) ==
  CASE fs.root = "missing" -> "FileNotFoundError"
    [] fs.root = "file" -> "NotADirectoryError"
    [] fs.docs[name] = "absent" -> "FileNotFoundError"
    [] fs.docs[name] = "unreadable" -> "PermissionError"
    [] OTHER -> "none"

\* search_all(md_paths, q, context=1) when every read succeeds
RECURSIVE search_docs(_, _, _)
search_docs(md_paths, query, context) ==
  IF md_paths = <<>> THEN <<>>
  ELSE DocMatches(Head(md_paths), Content(Head(md_paths)), query, context)
       \o search_docs(Tail(md_paths), query, context)

\* The first document of md_paths that read_text cannot read, as a sequence of
\* at most one name.
FirstUnreadable(fs, md_paths) ==
  LET Bad == {k \in 1..Len(md_paths) : ReadError(fs, md_paths[k]) # "none"}
  IN IF Bad = {} THEN <<>> ELSE <<md_paths[MinOf(Bad)]>>

\* line 241: the documents whose name starts with "4.sugerencias" in lowercase
SugPrefix == <<"4", ".", "s", "u", "g", "e", "r", "e", "n", "c", "i", "a", "s">>
IsSuggestion(name) ==
  Len(Lower(name)) >= Len(SugPrefix) /\ SubSeq(Lower(name), 1, Len(SugPrefix)) = SugPrefix

\* The prompts of line 104 that paginate(text) makes in a terminal of size ts.
PromptsOf(text, ts) ==
  LET total == Len(WrapAll(splitlines(text), ts[1]))
      rows == BodyRows(ts[2])
  IN IF total = 0 THEN 0 ELSE (total - 1) \div rows

Running == {"menu", "pick", "pause", "query", "paging"}

AppInit ==
  /\ pag = Off /\ srch = Off /\ toc = Off /\ inv = Off
  /\ \E root \in {"dir", "missing", "file"}, docs \in [AppDocs -> {"ok", "unreadable", "absent"}] :
       app = [pc |-> "start", fs |-> [root |-> root, docs |-> docs], op |-> 0,
              md_paths |-> <<>>, img_paths |-> <<>>, idx |-> -1, q |-> <<>>,
              results |-> <<>>, searched |-> FALSE, left |-> 0,
              err |-> "none", raised_in |-> "none"]

Goto(pc) == [app EXCEPT !.pc = pc]
Crash(a, err, where) == [a EXCEPT !.pc = "crashed", !.err = err, !.raised_in = where]

\* open_doc_paged(md_path), lines 152-155 and 79-104, up to its first prompt
OpenDoc(a, name, ts) ==
  IF ReadError(a.fs, name) # "none"
  THEN Crash(a, ReadError(a.fs, name), "open_doc_paged")
  ELSE LET n == PromptsOf(Content(name), ts)
       IN [a EXCEPT !.pc = IF n > 0 THEN "paging" ELSE "menu", !.left = n]

\* lines 159-162
Startup ==
  /\ app.pc = "start"
  /\ app' = Goto(IF isdir(app.fs) THEN "menu" ELSE "invalid_dir")
  /\ UNCHANGED <<pag, srch, toc, inv>>

\* lines 175-248: the user answers the menu prompt; ask_int, the scan of the
\* directory and the chosen option up to its first prompt
MenuInput ==
  /\ app.pc = "menu"
  /\ \E typed \in Inputs, ts \in TermSizes :
       LET r == ask_int(typed, 0..5)
           lists == list_files(DirOf(app.fs))
           a == [app EXCEPT !.op = r.n, !.md_paths = lists[1], !.img_paths = lists[2],
                            !.searched = FALSE, !.results = <<>>]
           cand == SelectSeq(lists[1], IsSuggestion)
       IN app' =
            CASE r.res = "ValueError" -> Crash(app, "ValueError", "ask_int")
              [] r.res = "retry" -> app
              [] ListError(app.fs) # "none" ->
                   Crash([app EXCEPT !.op = r.n], ListError(app.fs), "list_files")
              [] r.n = 0 -> [a EXCEPT !.pc = "exited"]
              [] r.n = 1 -> [a EXCEPT !.pc = "pause"]
              [] r.n = 2 -> IF lists[1] = <<>> THEN [a EXCEPT !.pc = "pause", !.idx = -1]
                            ELSE [a EXCEPT !.pc = "pick"]
              [] r.n = 3 -> IF lists[1] = <<>> THEN [a EXCEPT !.pc = "menu", !.idx = -1]
                            ELSE [a EXCEPT !.pc = "pick"]
              [] r.n = 4 -> [a EXCEPT !.pc = IF lists[1] = <<>> THEN "pause" ELSE "query"]
              [] OTHER -> IF cand = <<>> THEN [a EXCEPT !.pc = "menu"]
                          ELSE OpenDoc(a, cand[1], ts)
  /\ UNCHANGED <<pag, srch, toc, inv>>

\* lines 136 and 205-214: the user answers the prompt of pick_from_list
PickInput ==
  /\ app.pc = "pick"
  /\ \E typed \in Inputs, ts \in TermSizes :
       LET r == ask_int(typed, 1..Len(app.md_paths))
           a == [app EXCEPT !.idx = r.n - 1]
       IN app' =
            CASE r.res = "ValueError" -> Crash(app, "ValueError", "ask_int")
              [] r.res = "retry" -> app
              [] app.op = 2 ->
                   IF ReadError(app.fs, app.md_paths[r.n]) # "none"
                   THEN Crash(a, ReadError(app.fs, app.md_paths[r.n]), "show_toc")
                   ELSE [a EXCEPT !.pc = "pause"]
              [] OTHER -> OpenDoc(a, app.md_paths[r.n], ts)
  /\ UNCHANGED <<pag, srch, toc, inv>>

\* lines 222-236: the user types the text to search for
QueryInput ==
  /\ app.pc = "query"
  /\ \E typed \in AppQueries :
       LET q == strip(typed)
           bad == FirstUnreadable(app.fs, app.md_paths)
       IN app' =
            IF Len(q) < 2 THEN [app EXCEPT !.pc = "pause", !.q = q]
            ELSE IF bad # <<>>
                 THEN Crash([app EXCEPT !.q = q], ReadError(app.fs, bad[1]), "search_all")
                 ELSE [app EXCEPT !.pc = "pause", !.q = q, !.searched = TRUE,
                                  !.results = search_docs(app.md_paths, q, 1)]
  /\ UNCHANGED <<pag, srch, toc, inv>>

\* lines 200, 208, 220, 225, 236: Enter at "Enter para continuar"
PauseInput ==
  /\ app.pc = "pause"
  /\ app' = Goto("menu")
  /\ UNCHANGED <<pag, srch, toc, inv>>

\* line 104 inside open_doc_paged: Enter between two pages
PageInput ==
  /\ app.pc = "paging"
  /\ app' = [app EXCEPT !.left = @ - 1, !.pc = IF app.left > 1 THEN "paging" ELSE "menu"]
  /\ UNCHANGED <<pag, srch, toc, inv>>

\* Ctrl+C at a prompt: KeyboardInterrupt, caught at lines 254-255
Interrupt ==
  /\ app.pc \in Running
  /\ app' = Goto("interrupted")
  /\ UNCHANGED <<pag, srch, toc, inv>>

\* End of input at a prompt: input() raises EOFError, which nothing catches
EndOfInput ==
  /\ app.pc \in Running
  /\ app' = Crash(app, "EOFError", "input")
  /\ UNCHANGED <<pag, srch, toc, inv>>

\* Another process changes a document while the program waits at a prompt.
EnvChangeDoc ==
  /\ app.pc \in Running
  /\ app.fs.root = "dir"
  /\ \E d \in AppDocs, st \in {"ok", "unreadable", "absent"} :
       /\ app.fs.docs[d] # st
       /\ app' = [app EXCEPT !.fs.docs[d] = st]
  /\ UNCHANGED <<pag, srch, toc, inv>>

\* Another process removes the root directory, or puts a file in its place.
EnvRemoveRoot ==
  /\ app.pc \in Running
  /\ app.fs.root = "dir"
  /\ \E root \in {"missing", "file"} :
       app' = [app EXCEPT !.fs = [root |-> root, docs |-> [d \in AppDocs |-> "absent"]]]
  /\ UNCHANGED <<pag, srch, toc, inv>>

Init == AppInit

Next ==
  \/ Startup
  \/ MenuInput
  \/ PickInput
  \/ QueryInput
  \/ PauseInput
  \/ PageInput
  \/ Interrupt
  \/ EndOfInput
  \/ EnvChangeDoc
  \/ EnvRemoveRoot

Spec == Init /\ [][Next]_vars

(***************************************************************************)
(* C8: when reading one document fails with an I/O error during a search   *)
(* over several documents, the search is not aborted: the program does not *)
(* end with the error of read_text raised inside search_all, and a search  *)
(* that has returned holds the matches of the documents of the list, in    *)
(* the order of the list.                                                  *)
(***************************************************************************)
C8_SearchSurvivesReadError ==
  /\ ~(app.pc = "crashed" /\ app.raised_in = "search_all")
  /\ app.searched => app.results = search_docs(app.md_paths, app.q, 1)

(***************************************************************************)
(* C9, the clause on the scan of the directory: once the check of line 160 *)
(* has passed, the scan that every menu iteration makes, the iteration of  *)
(* option 0 included, never ends the process with an unhandled error, also *)
(* when the root has been removed or is no longer a directory.             *)
(***************************************************************************)
C9_RescanNeverEndsProcess ==
  ~(app.pc = "crashed" /\ app.raised_in = "list_files")

(***************************************************************************)
(* C10: whatever the user types, ask_int raises no error and returns only  *)
(* a value of the valid set: the option is one of 0..5, and the index that *)
(* the TOC and read actions use is -1 exactly when the Markdown list is    *)
(* empty and otherwise inside 0..len(md_paths)-1.                          *)
(***************************************************************************)
C10_AskIntNeverRaises ==
  /\ ~(app.pc = "crashed" /\ app.raised_in = "ask_int")
  /\ app.op \in 0..5
  /\ (/\ app.op \in {2, 3}
      /\ app.pc \in {"pause", "paging"} \/ app.raised_in \in {"show_toc", "open_doc_paged"})
       => IF app.md_paths = <<>> THEN app.idx = -1
          ELSE app.idx \in 0..(Len(app.md_paths) - 1)

====
